---- MODULE Spec2Model ----
(***************************************************************************)
(* Model of the FRA WebGIS core:                                           *)
(*   - make_fra_geojson        (webgis_module/01_geo_loader.py)            *)
(*   - extract_and_merge_assets (webgis_module/03_map_util.py)             *)
(*   - process_raster          (webgis_module/raster_processor.py)         *)
(* Text values are sequences of one-character strings so that strip,       *)
(* lower, replace and the similarity score are computed, not assumed.      *)
(***************************************************************************)
EXTENDS Integers, Sequences, FiniteSets, TLC

VARIABLES
    \* ---- make_fra_geojson ----
    shp,              \* rows of the shapefile as read (raw text), line 19
    csv,              \* rows of the FRA CSV as read (raw text), line 20
    threshold,        \* parameter threshold, line 8
    gdf,              \* normalized boundary table, lines 36-54
    df_agg,           \* aggregated beneficiaries, lines 62-66
    pc,               \* position inside make_fra_geojson
    i,                \* index of the row of df_agg being matched, line 74
    log,              \* what the cascade did for every finished row
    matched_polygons, \* line 71
    unmatched,        \* line 72
    ret,              \* return value of make_fra_geojson
    \* ---- raster pipeline ----
    raster,           \* cell -> raw code of the categorical raster
    villages,         \* geometries of fra.geojson, one per village
    e_idx,            \* extract_and_merge_assets: next village (1-based)
    features,         \* extract_and_merge_assets: features, line 31
    e_out,            \* extract_and_merge_assets: outcome of every village
    e_pc,             \* position inside extract_and_merge_assets
    p_idx,            \* process_raster: next village (1-based)
    results,          \* process_raster: results, line 22
    p_out,            \* process_raster: outcome of every village
    p_pc              \* position inside process_raster

match_vars == <<shp, csv, threshold, gdf, df_agg, pc, i, log,
                matched_polygons, unmatched, ret>>
raster_vars == <<raster, villages, e_idx, features, e_out, e_pc,
                 p_idx, results, p_out, p_pc>>
vars == <<match_vars, raster_vars>>

-----------------------------------------------------------------------------
(* Bounds of the model *)

MaxPolys == 2       \* rows of the shapefile
MaxRows == 2        \* rows of the FRA CSV
MaxVillages == 2    \* villages of fra.geojson
RasterW == 2        \* columns of the raster

-----------------------------------------------------------------------------
(* Text *)

Alphabet ==
    <<" ",
      "A","B","C","D","E","F","G","H","I","J","K","L","M",
      "N","O","P","Q","R","S","T","U","V","W","X","Y","Z",
      "a","b","c","d","e","f","g","h","i","j","k","l","m",
      "n","o","p","q","r","s","t","u","v","w","x","y","z">>

CharOrd(c) == CHOOSE k \in 1..Len(Alphabet) : Alphabet[k] = c

IsSpace(c) == c = " "

IsUpper(c) == CharOrd(c) \in 2..27

\* str.lower on one character
LowerChar(c) == IF IsUpper(c) THEN Alphabet[CharOrd(c) + 26] ELSE c

\* Series.str.lower
StrLower(s) == [k \in 1..Len(s) |-> LowerChar(s[k])]

RECURSIVE LStrip(_)
LStrip(s) ==
    IF s = <<>> THEN <<>>
    ELSE IF IsSpace(Head(s)) THEN LStrip(Tail(s)) ELSE s

RECURSIVE RStrip(_)
RStrip(s) ==
    IF s = <<>> THEN <<>>
    ELSE IF IsSpace(s[Len(s)]) THEN RStrip(SubSeq(s, 1, Len(s) - 1)) ELSE s

\* Series.str.strip
StrStrip(s) == RStrip(LStrip(s))

\* .astype(str).str.strip().str.lower()
NormalizeText(s) == StrLower(StrStrip(s))

\* lexicographic order of str, by code point
RECURSIVE StrLess(_, _)
StrLess(a, b) ==
    IF b = <<>> THEN FALSE
    ELSE IF a = <<>> THEN TRUE
    ELSE IF Head(a) = Head(b) THEN StrLess(Tail(a), Tail(b))
    ELSE CharOrd(Head(a)) < CharOrd(Head(b))

-----------------------------------------------------------------------------
(* Names used by the inputs *)

angul == <<"a","n","g","u","l">>
anugul == <<"a","n","u","g","u","l">>
balasore == <<"b","a","l","a","s","o","r","e">>
baleshwar == <<"b","a","l","e","s","h","w","a","r">>
baleswar == <<"b","a","l","e","s","w","a","r">>

district_corrections ==
    { <<anugul, angul>>, <<balasore, baleswar>>, <<baleshwar, baleswar>> }

\* Series.replace(district_corrections): whole values only
ReplaceDistrict(s) ==
    IF \E c \in district_corrections : c[1] = s
    THEN (CHOOSE c \in district_corrections : c[1] = s)[2]
    ELSE s


-----------------------------------------------------------------------------
(* Similarity score of rapidfuzz.process.extractOne (default scorer WRatio).*)
(* A score is the exact rational num/den in [0,100].  The town names of    *)
(* the inputs are single words whose lengths differ by a factor below 1.5, *)
(* where WRatio(a,b) = max(ratio, 0.95 * token_ratio) = ratio(a,b)         *)
(* = 100 * 2*LCS(a,b) / (|a|+|b|), and 0 when either text is empty.        *)

Max(a, b) == IF a >= b THEN a ELSE b

RECURSIVE BuildRow(_, _, _, _)
BuildRow(prev, c, b, acc) ==
    IF Len(acc) = Len(b) + 1 THEN acc
    ELSE LET j == Len(acc)
         IN BuildRow(prev, c, b,
                Append(acc, IF c = b[j] THEN prev[j] + 1
                            ELSE Max(prev[j + 1], acc[j])))

RECURSIVE LcsRows(_, _, _, _)
LcsRows(a, b, k, prev) ==
    IF k > Len(a) THEN prev[Len(b) + 1]
    ELSE LcsRows(a, b, k + 1, BuildRow(prev, a[k], b, <<0>>))

RECURSIVE CommonPrefix(_, _)
CommonPrefix(a, b) ==
    IF a = <<>> \/ b = <<>> \/ Head(a) # Head(b) THEN 0
    ELSE 1 + CommonPrefix(Tail(a), Tail(b))

RECURSIVE CommonSuffix(_, _)
CommonSuffix(a, b) ==
    IF a = <<>> \/ b = <<>> \/ a[Len(a)] # b[Len(b)] THEN 0
    ELSE 1 + CommonSuffix(SubSeq(a, 1, Len(a) - 1), SubSeq(b, 1, Len(b) - 1))

\* length of the longest common subsequence: the common prefix and suffix
\* belong to it, the rest is computed row by row
LcsLen(a, b) ==
    LET p == CommonPrefix(a, b)
        a1 == SubSeq(a, p + 1, Len(a))
        b1 == SubSeq(b, p + 1, Len(b))
        q == CommonSuffix(a1, b1)
        a2 == SubSeq(a1, 1, Len(a1) - q)
        b2 == SubSeq(b1, 1, Len(b1) - q)
    IN p + q + LcsRows(a2, b2, 1, [j \in 1..(Len(b2) + 1) |-> 0])

WRatio(a, b) ==
    IF a = <<>> \/ b = <<>> THEN [num |-> 0, den |-> 1]
    ELSE [num |-> 200 * LcsLen(a, b), den |-> Len(a) + Len(b)]

ScoreGT(s, t) == s.num * t.den > t.num * s.den

\* score >= score_cutoff
ScoreGECutoffStrict(s, cutoff) == s.num > cutoff * s.den
ScoreGECutoff(s, cutoff) == s.num >= cutoff * s.den

IsOptimal(s) == s.num = 100 * s.den

-----------------------------------------------------------------------------
(* Inputs *)

Txt(d, b, v) == [district |-> d, block |-> b, village |-> v]

\* rows a shapefile may hold, as written in the file
ShpRows ==
    { Txt(<<" ","A","n","g","u","l">>, <<"B","a","n","a","r","p","a","l">>, <<"K","a","n","t","a","p","a","l","l","i">>),
      Txt(<<"a","n","u","g","u","l">>, <<"b","a","n","a","r","p","a","l">>, <<"k","a","n","t","a","p","a","l","i","l">>),
      Txt(<<"A","n","g","u","l">>, <<"T","a","l","c","h","e","r"," ">>, <<"k","a","n","t","a","a","p","l","i","l">>),
      Txt(<<"B","a","l","a","s","o","r","e">>, <<"R","e","m","u","n","a">>, <<"K","a","n","t","a","a","p","l","i","l">>) }

Row(d, b, v, n) == [district |-> d, block |-> b, village |-> v, num_beneficiaries |-> n]

\* rows fra.csv may hold, as written in the file
CsvRows ==
    { Row(<<"A","n","u","g","u","l">>, <<"B","a","n","a","r","p","a","l"," ">>, <<"K","a","n","t","a","p","a","l","l","i">>, 1),
      Row(<<"a","n","g","u","l">>, <<"b","a","n","a","r","p","a","l">>, <<"K","A","N","T","A","P","A","L","L","I">>, 2),
      Row(<<"a","n","g","u","l">>, <<"b","a","n","a","r","p","a","l">>, <<"k","a","n","t","a","p","a","l","i","l">>, 1),
      Row(<<"A","N","G","U","L">>, <<" ","b","a","n","a","r","p","a","l">>, <<"k","a","n","t","a","a","p","l","i","l">>, 1) }

Thresholds == {85, 90}

SeqsUpTo(S, n) == UNION { [1..m -> S] : m \in 0..n }

-----------------------------------------------------------------------------
(* make_fra_geojson: loading, normalization, aggregation *)

\* lines 41-42 and 54 without the correction table
NormalizeShpNoCorrection(rows) ==
    [k \in 1..Len(rows) |->
        [district |-> NormalizeText(rows[k].district),
         block |-> NormalizeText(rows[k].block),
         village |-> NormalizeText(rows[k].village),
         geometry |-> k,
         state |-> "Odisha"]]

\* lines 36-38, 41-42, 54: the boundary table; geometry k is the k-th polygon
NormalizeShp(rows) ==
    [k \in 1..Len(rows) |->
        [district |-> ReplaceDistrict(NormalizeText(rows[k].district)),
         block |-> NormalizeText(rows[k].block),
         village |-> NormalizeText(rows[k].village),
         geometry |-> k,
         state |-> "Odisha"]]

\* lines 41, 43, 53: the beneficiary table
NormalizeCsv(rows) ==
    [k \in 1..Len(rows) |->
        [district |-> ReplaceDistrict(NormalizeText(rows[k].district)),
         block |-> NormalizeText(rows[k].block),
         village |-> NormalizeText(rows[k].village),
         num_beneficiaries |-> rows[k].num_beneficiaries]]

KeyOf(r) == <<r.district, r.block, r.village>>

\* order of the group keys (groupby sorts them)
KeyLess(a, b) ==
    \/ StrLess(a[1], b[1])
    \/ a[1] = b[1] /\ StrLess(a[2], b[2])
    \/ a[1] = b[1] /\ a[2] = b[2] /\ StrLess(a[3], b[3])

RECURSIVE SortKeys(_)
SortKeys(S) ==
    IF S = {} THEN <<>>
    ELSE LET m == CHOOSE x \in S : \A y \in S \ {x} : KeyLess(x, y)
         IN <<m>> \o SortKeys(S \ {m})

RECURSIVE SumFor(_, _)
SumFor(df, key) ==
    IF df = <<>> THEN 0
    ELSE (IF KeyOf(Head(df)) = key THEN Head(df).num_beneficiaries ELSE 0)
         + SumFor(Tail(df), key)

\* one output row per input row: the grouping left out
GroupBySumPerRow(df) == df

\* lines 62-66: df.groupby([district, block, village])[num_beneficiaries].sum()
GroupBySum(df) ==
    LET ks == SortKeys({ KeyOf(df[k]) : k \in 1..Len(df) })
    IN [k \in 1..Len(ks) |->
           [district |-> ks[k][1], block |-> ks[k][2], village |-> ks[k][3],
            num_beneficiaries |-> SumFor(df, ks[k])]]

-----------------------------------------------------------------------------
(* make_fra_geojson: the matching cascade *)

\* the guard "if candidate is None" left out
CandidateIsNoneAlways(c) == TRUE

\* lines 92, 103, 111: if candidate is None
CandidateIsNone(c) == c = 0

\* lines 83-87: rows of gdf equal on district, block and village
ExactSubset(d, b, v) ==
    { k \in 1..Len(gdf) :
        gdf[k].district = d /\ gdf[k].block = b /\ gdf[k].village = v }

\* the block filter left out
BlockSubsetNoBlock(d, b) == { k \in 1..Len(gdf) : gdf[k].district = d }

\* lines 93-96: rows of gdf of the same district and block
BlockSubset(d, b) ==
    { k \in 1..Len(gdf) : gdf[k].district = d /\ gdf[k].block = b }

\* line 104: rows of gdf of the same district
DistrictSubset(d) == { k \in 1..Len(gdf) : gdf[k].district = d }

\* line 112: every row of gdf
GlobalSubset == 1..Len(gdf)

\* rapidfuzz.process.extractOne(query, subset["village"], score_cutoff):
\* the choices are scored in the order of the table; a choice replaces the
\* result when its score is >= score_cutoff and > the score of the result;
\* a score of 100 ends the scan.  0 stands for None.
RECURSIVE ExtractOneFrom(_, _, _, _, _)
ExtractOneFrom(query, subset, score_cutoff, k, result) ==
    IF k > Len(gdf) THEN result.key
    ELSE IF k \notin subset
         THEN ExtractOneFrom(query, subset, score_cutoff, k + 1, result)
    ELSE LET score == WRatio(query, gdf[k].village)
         IN IF /\ ScoreGECutoff(score, score_cutoff)
               /\ (result.key = 0 \/ ScoreGT(score, result.score))
            THEN IF IsOptimal(score) THEN k
                 ELSE ExtractOneFrom(query, subset, score_cutoff, k + 1,
                                     [key |-> k, score |-> score])
            ELSE ExtractOneFrom(query, subset, score_cutoff, k + 1, result)

ExtractOne(query, subset, score_cutoff) ==
    ExtractOneFrom(query, subset, score_cutoff, 1,
                   [key |-> 0, score |-> [num |-> 0, den |-> 1]])

Min(S) == CHOOSE x \in S : \A y \in S : x <= y

\* subset[subset["village"] == best[0]].iloc[[0]]
FirstWithVillage(subset, v) == Min({ k \in subset : gdf[k].village = v })

\* lines 19-66
Load ==
    /\ pc = "load"
    /\ gdf' = NormalizeShp(shp)
    /\ df_agg' = GroupBySum(NormalizeCsv(csv))
    /\ i' = 1
    /\ pc' = IF Len(df_agg') = 0 THEN "combine" ELSE "loop"
    /\ UNCHANGED raster_vars
    /\ UNCHANGED <<shp, csv, threshold, log, matched_polygons, unmatched, ret>>

(* The cascade of one row of df_agg.  Its state is                         *)
(*   candidate: 0 = None, else the index in gdf of the candidate row;      *)
(*   tried:     the steps whose guard let them run, in order;              *)
(*   fuzzy:     the steps that called extractOne, in order;                *)
(*   tier:      the step that set candidate, 0 if none did.                *)

\* lines 80-89: candidate = None, then Step 1
Step1(row) ==
    LET subset == ExactSubset(row.district, row.block, row.village)
    IN [candidate |-> IF subset # {} THEN Min(subset) ELSE 0,
        tried |-> <<1>>,
        fuzzy |-> <<>>,
        tier |-> IF subset # {} THEN 1 ELSE 0]

\* lines 92-100, 103-108, 111-114: one fuzzy step; t its number, subset its
\* rows, whenEmpty whether extractOne is called on an empty subset (Step 4)
FuzzyStep(st, row, t, subset, whenEmpty) ==
    IF CandidateIsNone(st.candidate)
    THEN IF subset # {} \/ whenEmpty
         THEN LET best == ExtractOne(row.village, subset, threshold)
              IN [candidate |-> IF best # 0
                                THEN FirstWithVillage(subset, gdf[best].village)
                                ELSE 0,
                  tried |-> Append(st.tried, t),
                  fuzzy |-> Append(st.fuzzy, t),
                  tier |-> IF best # 0 THEN t ELSE st.tier]
         ELSE [st EXCEPT !.tried = Append(st.tried, t)]
    ELSE st

\* lines 91-100
Step2(st, row) ==
    FuzzyStep(st, row, 2, BlockSubset(row.district, row.block), FALSE)

\* lines 102-108
Step3(st, row) == FuzzyStep(st, row, 3, DistrictSubset(row.district), FALSE)

\* lines 110-114
Step4(st, row) == FuzzyStep(st, row, 4, GlobalSubset, TRUE)

\* lines 80-114
Cascade(row) == Step4(Step3(Step2(Step1(row), row), row), row)

\* lines 118-123: the matched feature
MatchedFeature(row, c) ==
    [state |-> gdf[c].state,
     district |-> row.district,
     block |-> row.block,
     village |-> row.village,
     num_beneficiaries |-> row.num_beneficiaries,
     geometry |-> gdf[c].geometry]

\* the else branch of line 125 left out
SaveListsNoElse(row, c, m, u) ==
    IF c # 0 THEN <<Append(m, MatchedFeature(row, c)), u>> ELSE <<m, u>>

\* lines 116-126: the lists after the row is saved
SaveLists(row, c, m, u) ==
    IF c # 0
    THEN <<Append(m, MatchedFeature(row, c)), u>>
    ELSE <<m, Append(u, KeyOf(row))>>

\* lines 74-126: one iteration of the loop over df_agg
MatchRow ==
    /\ pc = "loop"
    /\ LET row == df_agg[i]
           st == Cascade(row)
           s == SaveLists(row, st.candidate, matched_polygons, unmatched)
       IN /\ matched_polygons' = s[1]
          /\ unmatched' = s[2]
          /\ log' = Append(log, [key |-> KeyOf(row), tried |-> st.tried,
                                 fuzzy |-> st.fuzzy, tier |-> st.tier,
                                 candidate |-> st.candidate])
    /\ IF i < Len(df_agg)
       THEN i' = i + 1 /\ pc' = "loop"
       ELSE i' = i /\ pc' = "combine"
    /\ UNCHANGED raster_vars
    /\ UNCHANGED <<shp, csv, threshold, gdf, df_agg, ret>>

\* lines 131-143
Combine ==
    /\ pc = "combine"
    /\ ret' = IF matched_polygons # <<>> THEN "output_path" ELSE "None"
    /\ pc' = "done"
    /\ UNCHANGED raster_vars
    /\ UNCHANGED <<shp, csv, threshold, gdf, df_agg, i, log,
                   matched_polygons, unmatched>>

MatchInit ==
    /\ shp \in SeqsUpTo(ShpRows, MaxPolys)
    /\ csv \in SeqsUpTo(CsvRows, MaxRows)
    /\ threshold \in Thresholds
    /\ gdf = <<>>
    /\ df_agg = <<>>
    /\ pc = "load"
    /\ i = 1
    /\ log = <<>>
    /\ matched_polygons = <<>>
    /\ unmatched = <<>>
    /\ ret = "pending"

RasterIdle ==
    /\ raster = <<>>
    /\ villages = <<>>
    /\ e_idx = 1
    /\ features = <<>>
    /\ e_out = <<>>
    /\ e_pc = "done"
    /\ p_idx = 1
    /\ results = <<>>
    /\ p_out = <<>>
    /\ p_pc = "done"

Init == MatchInit /\ RasterIdle

Next == Load \/ MatchRow \/ Combine

Spec == Init /\ [][Next]_vars

-----------------------------------------------------------------------------
(* Properties of make_fra_geojson *)

LogEntries == { log[k] : k \in 1..Len(log) }

\* the polygons whose normalized names equal the key, compared field by field
PolysWithKey(key) ==
    { k \in 1..Len(gdf) : gdf[k].district = key[1] /\ gdf[k].block = key[2]
                          /\ gdf[k].village = key[3] }

\* C1: the steps of the cascade run in the order 1, 2, 3, 4; a step runs only
\* if no earlier step produced a candidate; a row whose key is the key of a
\* polygon gets such a polygon from Step 1 and extractOne is never called.
C1_CascadeOrder ==
    \A e \in LogEntries :
        /\ Len(e.tried) >= 1
        /\ \A k \in 1..Len(e.tried) : e.tried[k] = k
        /\ \A k \in 1..Len(e.fuzzy) : e.fuzzy[k] \in 2..4
        /\ \A t \in 2..4 :
              (\E k \in 1..Len(e.tried) : e.tried[k] = t)
                  => (e.tier = 0 \/ e.tier >= t)
        /\ PolysWithKey(e.key) # {}
              => /\ e.tier = 1
                 /\ e.tried = <<1>>
                 /\ e.fuzzy = <<>>
                 /\ e.candidate \in PolysWithKey(e.key)

\* an exact match although another polygon of the block scores >= threshold,
\* and a row that Step 1 left to Step 2
C1_Witness ==
    /\ \E e \in LogEntries :
          /\ e.tier = 1
          /\ \E k \in 1..Len(gdf) :
                /\ k \notin PolysWithKey(e.key)
                /\ gdf[k].district = e.key[1] /\ gdf[k].block = e.key[2]
                /\ WRatio(e.key[3], gdf[k].village).num
                       >= threshold * WRatio(e.key[3], gdf[k].village).den
    /\ \E e \in LogEntries : e.tried = <<1, 2>> /\ e.tier = 2

\* C2: a Step 2 candidate has the district and block of the row, a Step 3
\* candidate has the district of the row; Step 4 is not restricted.
C2_TierScope ==
    \A e \in LogEntries :
        /\ e.tier = 2 => /\ gdf[e.candidate].district = e.key[1]
                         /\ gdf[e.candidate].block = e.key[2]
        /\ e.tier = 3 => gdf[e.candidate].district = e.key[1]

\* a Step 2 match and a Step 4 match from another district in one run
C2_Witness ==
    /\ \E e \in LogEntries : e.tier = 2
    /\ \E e \in LogEntries :
          e.tier = 4 /\ gdf[e.candidate].district # e.key[1]

\* a Step 3 match from another block of the district
C2_WitnessTier3 ==
    \E e \in LogEntries :
        e.tier = 3 /\ gdf[e.candidate].block # e.key[2]

\* the rows of gdf a step looks at, from the names of the row
ScopeOf(t, key) ==
    CASE t = 2 -> { k \in 1..Len(gdf) :
                      gdf[k].district = key[1] /\ gdf[k].block = key[2] }
      [] t = 3 -> { k \in 1..Len(gdf) : gdf[k].district = key[1] }
      [] t = 4 -> 1..Len(gdf)

Reaches(s, T) == s.num >= T * s.den

\* C3: a fuzzy step that ran selects a polygon iff the best score in its
\* scope is >= threshold (equality matches); the polygon selected has the
\* highest score of the scope; otherwise the next step runs.
C3_BestAboveThreshold ==
    \A e \in LogEntries :
        \A t \in 2..4 :
            (\E k \in 1..Len(e.tried) : e.tried[k] = t) =>
                LET scope == ScopeOf(t, e.key)
                    sc(k) == WRatio(e.key[3], gdf[k].village)
                IN IF e.tier = t
                   THEN /\ e.candidate \in scope
                        /\ Reaches(sc(e.candidate), threshold)
                        /\ \A k \in scope :
                              sc(e.candidate).num * sc(k).den
                                  >= sc(k).num * sc(e.candidate).den
                   ELSE /\ \A k \in scope : ~Reaches(sc(k), threshold)
                        /\ t < 4 => \E k \in 1..Len(e.tried) : e.tried[k] = t + 1

\* in one run: a Step 2 match whose score equals the threshold, and a row
\* whose block holds only a polygon below the threshold and that Step 3 matches
C3_Witness ==
    /\ \E e \in LogEntries :
          /\ e.tier = 2
          /\ WRatio(e.key[3], gdf[e.candidate].village).num
                = threshold * WRatio(e.key[3], gdf[e.candidate].village).den
    /\ \E e \in LogEntries :
          /\ e.tier = 3
          /\ ScopeOf(2, e.key) # {}
          /\ e.fuzzy = <<2, 3>>

\* C4: no two entries of matched_polygons have the same (district, block,
\* village); df_agg has one row per key and each row adds at most one entry.
C4_UniqueKeys ==
    /\ \A a, b \in 1..Len(matched_polygons) :
          a # b => KeyOf(matched_polygons[a]) # KeyOf(matched_polygons[b])
    /\ \A a, b \in 1..Len(df_agg) : a # b => KeyOf(df_agg[a]) # KeyOf(df_agg[b])
    /\ Len(matched_polygons) <= Len(log)

\* two rows of the CSV written differently fall into one matched entry
C4_Witness ==
    /\ pc = "done"
    /\ Len(csv) = 2
    /\ csv[1] # csv[2]
    /\ Len(df_agg) = 1
    /\ Len(matched_polygons) = 1
    /\ matched_polygons[1].num_beneficiaries
          = csv[1].num_beneficiaries + csv[2].num_beneficiaries

\* C5: no polygon gives its geometry to two entries of matched_polygons.
C5_PolygonClaimedOnce ==
    \A a, b \in 1..Len(matched_polygons) :
        a # b => matched_polygons[a].geometry # matched_polygons[b].geometry

Count(seq, x) == Cardinality({ k \in 1..Len(seq) : seq[k] = x })

MatchedKeys == [k \in 1..Len(matched_polygons) |-> KeyOf(matched_polygons[k])]

\* C6: every processed row of df_agg is in exactly one of matched_polygons
\* and unmatched; it is in unmatched iff all four steps ran without a
\* candidate; the loop goes on after an unmatched row and ends only when
\* every row is processed.
C6_OneOutcome ==
    /\ Len(log) <= Len(df_agg)
    /\ Len(matched_polygons) + Len(unmatched) = Len(log)
    /\ \A k \in 1..Len(log) :
          LET key == KeyOf(df_agg[k])
              inM == Count(MatchedKeys, key)
              inU == Count(unmatched, key)
          IN /\ inM + inU = 1
             /\ inU = 1 <=> (log[k].tier = 0 /\ log[k].tried = <<1, 2, 3, 4>>)
    /\ pc \in {"combine", "done"} => Len(log) = Len(df_agg)

\* an unmatched row followed by a matched one
C6_Witness ==
    /\ pc = "done"
    /\ Len(log) = 2
    /\ log[1].tier = 0 /\ unmatched = <<log[1].key>>
    /\ log[2].tier # 0 /\ Len(matched_polygons) = 1
    /\ ret = "output_path"

AngulSpellings == {angul, anugul}

\* C7: a CSV row and a shapefile row whose districts are spellings of angul
\* and whose block and village agree after strip and lower meet in Step 1.
C7_AliasExactMatch ==
    \A r \in 1..Len(csv) : \A p \in 1..Len(shp) :
        ( /\ Len(log) = Len(df_agg) /\ pc # "load"
          /\ NormalizeText(csv[r].district) \in AngulSpellings
          /\ NormalizeText(shp[p].district) \in AngulSpellings
          /\ NormalizeText(csv[r].block) = NormalizeText(shp[p].block)
          /\ NormalizeText(csv[r].village) = NormalizeText(shp[p].village) )
        => \E e \in LogEntries :
              /\ e.key = <<angul, NormalizeText(csv[r].block),
                           NormalizeText(csv[r].village)>>
              /\ e.tier = 1
              /\ e.fuzzy = <<>>
              /\ NormalizeText(shp[e.candidate].village) = e.key[3]
              /\ NormalizeText(shp[e.candidate].block) = e.key[2]
              /\ NormalizeText(shp[e.candidate].district) \in AngulSpellings

\* the boundary written "angul", the beneficiary written "anugul"
C7_Witness ==
    /\ pc = "done"
    /\ \E r \in 1..Len(csv) : \E p \in 1..Len(shp) :
          /\ NormalizeText(csv[r].district) = anugul
          /\ NormalizeText(shp[p].district) = angul
          /\ csv[r].district # shp[p].district
          /\ NormalizeText(csv[r].block) = NormalizeText(shp[p].block)
          /\ NormalizeText(csv[r].village) = NormalizeText(shp[p].village)
          /\ \E k \in 1..Len(matched_polygons) :
                /\ matched_polygons[k].district = angul
                /\ matched_polygons[k].geometry = p
                /\ log[k].tier = 1

-----------------------------------------------------------------------------
(* The raster pipeline: extract_and_merge_assets and process_raster read   *)
(* the same raster and the same fra.geojson.  The raster has two rows and  *)
(* RasterW columns; a geometry is the set of cells whose centre it covers. *)

NoData == 255

Cells == (1..2) \X (1..RasterW)

\* the values a cell may hold: nodata, a key of CLASS_MAP (10) and a land
\* cover code that is no key of CLASS_MAP (30)
RawCodes == {NoData, 10, 30}

CLASS_MAP ==
    [v \in {10, 40, 50, 80} |->
        CASE v = 10 -> "tree_cover"
          [] v = 40 -> "cropland"
          [] v = 50 -> "built_up"
          [] v = 80 -> "water_bodies"]

\* the geometries a village of fra.geojson may have: the whole raster, an L
\* that leaves out one corner, and a polygon that lies outside the raster
Geoms == { Cells, Cells \ {<<2, RasterW>>}, {} }

MaxOf(S) == CHOOSE x \in S : \A y \in S : x >= y

\* the window of crop=True: the bounding box of the geometry
Window(geom) ==
    LET rs == { c[1] : c \in geom }
        cs == { c[2] : c \in geom }
    IN (Min(rs)..MaxOf(rs)) \X (Min(cs)..MaxOf(cs))

\* rasterio.mask.mask raises ValueError when the shapes do not overlap the raster
MaskRaises(geom) == geom \cap Cells = {}

\* out_img[0] of rasterio.mask.mask(raster, geom, crop=True): the cells of
\* the window, those outside the geometry filled with the nodata value
Mask(geom) ==
    [c \in Window(geom) |-> IF c \in geom THEN raster[c] ELSE NoData]

RECURSIVE SumOver(_, _)
SumOver(f, S) ==
    IF S = {} THEN 0
    ELSE LET x == CHOOSE y \in S : TRUE
         IN f[x] + SumOver(f, S \ {x})

-----------------------------------------------------------------------------
(* extract_and_merge_assets *)

\* line 41: data[data == raster.nodata] = 0
RemoveNodata(out) == [c \in DOMAIN out |-> IF out[c] = NoData THEN 0 ELSE out[c]]

Adjacent(c, d) ==
    \/ c[1] = d[1] /\ (c[2] = d[2] + 1 \/ d[2] = c[2] + 1)
    \/ c[2] = d[2] /\ (c[1] = d[1] + 1 \/ d[1] = c[1] + 1)

\* the connected region of equal value that holds the cells S (connectivity 4)
RECURSIVE Grow(_, _)
Grow(data, S) ==
    LET N == S \cup { d \in DOMAIN data :
                        /\ data[d] # 0
                        /\ \E c \in S : Adjacent(c, d) /\ data[c] = data[d] }
    IN IF N = S THEN S ELSE Grow(data, N)

CellLess(c, d) == c[1] < d[1] \/ (c[1] = d[1] /\ c[2] < d[2])

FirstCell(S) == CHOOSE c \in S : \A d \in S \ {c} : CellLess(c, d)

RECURSIVE SortRegions(_)
SortRegions(R) ==
    IF R = {} THEN <<>>
    ELSE LET m == CHOOSE x \in R :
                     \A y \in R \ {x} : CellLess(FirstCell(x), FirstCell(y))
         IN <<m>> \o SortRegions(R \ {m})

\* line 48: rasterio.features.shapes(data, mask = data != 0): one polygon per
\* connected region of equal value, in the order of their first cell
Shapes(data) ==
    SortRegions({ Grow(data, {c}) : c \in { d \in DOMAIN data : data[d] # 0 } })

\* the cells of the region among the four cells that meet at grid point (r, c)
Around(region, r, c) ==
    region \cap { <<r, c>>, <<r, c + 1>>, <<r + 1, c>>, <<r + 1, c + 1>> }

\* corners of the outline at grid point (r, c): one where one or three of the
\* four cells belong to the region, two where two diagonal cells do
CornersAt(region, r, c) ==
    LET a == Around(region, r, c)
    IN IF Cardinality(a) \in {1, 3} THEN 1
       ELSE IF a = { <<r, c>>, <<r + 1, c + 1>> }
               \/ a = { <<r, c + 1>>, <<r + 1, c>> } THEN 2
       ELSE 0

\* shp["coordinates"][0]: the exterior ring of the polygon of the region; it
\* has one coordinate per corner of the outline and repeats the first at the
\* end.  With two rows no region has a hole, so the outline is the exterior.
RingCoordinates(region) ==
    LET pts == (0..2) \X (0..RasterW)
        n == [q \in pts |-> CornersAt(region, q[1], q[2])]
    IN SumOver(n, pts) + 1

\* line 61: int(np.array(shp["coordinates"][0]).shape[0])
AreaPixels(region) == RingCoordinates(region)

\* the test "val not in CLASS_MAP" of line 50 left out: a region of another
\* code is emitted too
RECURSIVE FeaturesOfNoFilter(_, _, _)
FeaturesOfNoFilter(idx, data, shapes) ==
    IF shapes = <<>> THEN <<>>
    ELSE LET shape == Head(shapes)
             val == data[FirstCell(shape)]
         IN << [village |-> idx,
                land_type |-> IF val \in DOMAIN CLASS_MAP
                              THEN CLASS_MAP[val] ELSE "other",
                area_pixels |-> AreaPixels(shape),
                geometry |-> shape] >>
            \o FeaturesOfNoFilter(idx, data, Tail(shapes))

\* lines 48-64: the features of one village
RECURSIVE FeaturesOf(_, _, _)
FeaturesOf(idx, data, shapes) ==
    IF shapes = <<>> THEN <<>>
    ELSE LET shape == Head(shapes)
             val == data[FirstCell(shape)]
         IN (IF val \notin DOMAIN CLASS_MAP THEN <<>>
             ELSE << [village |-> idx,
                      land_type |-> CLASS_MAP[val],
                      area_pixels |-> AreaPixels(shape),
                      geometry |-> shape] >>)
            \o FeaturesOf(idx, data, Tail(shapes))

\* lines 34-71: one iteration of the loop over the villages.  The scripts of
\* the pipeline run one after the other: raster_processor.py has ended.
ExtractStep ==
    /\ e_pc = "loop"
    /\ p_pc = "done"
    /\ LET geom == villages[e_idx]
       IN IF MaskRaises(geom)
          THEN /\ features' = features
               /\ e_out' = Append(e_out, "error")
          ELSE LET data == RemoveNodata(Mask(geom))
               IN IF \A c \in DOMAIN data : data[c] = 0
                  THEN /\ features' = features
                       /\ e_out' = Append(e_out, "empty")
                  ELSE /\ features' = features \o FeaturesOf(e_idx, data, Shapes(data))
                       /\ e_out' = Append(e_out, "ok")
    /\ IF e_idx < Len(villages)
       THEN e_idx' = e_idx + 1 /\ e_pc' = "loop"
       ELSE e_idx' = e_idx /\ e_pc' = "write"
    /\ UNCHANGED match_vars
    /\ UNCHANGED <<raster, villages, p_idx, results, p_out, p_pc>>

\* lines 73-81: the merged GeoJSON is written
ExtractWrite ==
    /\ e_pc = "write"
    /\ e_pc' = "done"
    /\ UNCHANGED match_vars
    /\ UNCHANGED <<raster, villages, e_idx, features, e_out, p_idx, results, p_out, p_pc>>

-----------------------------------------------------------------------------
(* process_raster *)

\* every cell of the clip, the nodata filter left out
ValidCellsAll(out) == DOMAIN out

\* line 31: data = data[data != raster.nodata], as the cells that stay
ValidCells(out) == { c \in DOMAIN out : out[c] # NoData }

\* lines 36, 39: np.unique(data, return_counts=True) as a dict
LandStats(out) ==
    LET cells == ValidCells(out)
    IN [v \in { out[c] : c \in cells } |->
           Cardinality({ c \in cells : out[c] = v })]

\* line 37: counts.sum()
Total(land_stats) == SumOver(land_stats, DOMAIN land_stats)

\* the try/except of lines 28 and 53 left out: the exception of mask() ends
\* process_raster
ProcessStepNoExcept ==
    /\ p_pc = "loop"
    /\ LET geom == villages[p_idx]
       IN IF MaskRaises(geom)
          THEN /\ results' = results
               /\ p_out' = Append(p_out, "error")
               /\ p_idx' = p_idx
               /\ p_pc' = "done"
          ELSE LET out == Mask(geom)
               IN /\ IF ValidCells(out) = {}
                     THEN /\ results' = results
                          /\ p_out' = Append(p_out, "empty")
                     ELSE /\ results' = Append(results,
                                 [village |-> p_idx,
                                  land_stats |-> LandStats(out),
                                  total_pixels |-> Total(LandStats(out))])
                          /\ p_out' = Append(p_out, "ok")
                  /\ IF p_idx < Len(villages)
                     THEN p_idx' = p_idx + 1 /\ p_pc' = "loop"
                     ELSE p_idx' = p_idx /\ p_pc' = "write"
    /\ UNCHANGED match_vars
    /\ UNCHANGED <<raster, villages, e_idx, features, e_out, e_pc>>

\* lines 25-54: one iteration of the loop over the villages
ProcessStep ==
    /\ p_pc = "loop"
    /\ LET geom == villages[p_idx]
       IN IF MaskRaises(geom)
          THEN /\ results' = results
               /\ p_out' = Append(p_out, "error")
          ELSE LET out == Mask(geom)
               IN IF ValidCells(out) = {}
                  THEN /\ results' = results
                       /\ p_out' = Append(p_out, "empty")
                  ELSE /\ results' = Append(results,
                              [village |-> p_idx,
                               land_stats |-> LandStats(out),
                               total_pixels |-> Total(LandStats(out))])
                       /\ p_out' = Append(p_out, "ok")
    /\ IF p_idx < Len(villages)
       THEN p_idx' = p_idx + 1 /\ p_pc' = "loop"
       ELSE p_idx' = p_idx /\ p_pc' = "write"
    /\ UNCHANGED match_vars
    /\ UNCHANGED <<raster, villages, e_idx, features, e_out, e_pc>>

\* lines 59-77: the enriched GeoJSON and the CSV are written
ProcessWrite ==
    /\ p_pc = "write"
    /\ p_pc' = "done"
    /\ UNCHANGED match_vars
    /\ UNCHANGED <<raster, villages, e_idx, features, e_out, e_pc, p_idx, results, p_out>>

MatchIdle ==
    /\ shp = <<>>
    /\ csv = <<>>
    /\ threshold = 85
    /\ gdf = <<>>
    /\ df_agg = <<>>
    /\ pc = "done"
    /\ i = 1
    /\ log = <<>>
    /\ matched_polygons = <<>>
    /\ unmatched = <<>>
    /\ ret = "None"

RasterInit ==
    /\ raster \in [Cells -> RawCodes]
    /\ villages \in UNION { [1..m -> Geoms] : m \in 1..MaxVillages }
    /\ e_idx = 1
    /\ features = <<>>
    /\ e_out = <<>>
    /\ e_pc = "loop"
    /\ p_idx = 1
    /\ results = <<>>
    /\ p_out = <<>>
    /\ p_pc = "loop"

RasterStart == MatchIdle /\ RasterInit

RasterNext == ExtractStep \/ ExtractWrite \/ ProcessStep \/ ProcessWrite

RasterSpec == RasterStart /\ [][RasterNext]_vars

-----------------------------------------------------------------------------
(* Properties of the raster pipeline *)

FeatureSet == { features[k] : k \in 1..Len(features) }

ResultSet == { results[k] : k \in 1..Len(results) }

\* C8: the area_pixels of every feature is the number of cells of the
\* connected region it was made from.
C8_AreaIsCellCount ==
    \A f \in FeatureSet : f.area_pixels = Cardinality(f.geometry)

AreaOfVillage(v) ==
    LET ks == { k \in 1..Len(features) : features[k].village = v }
        a == [k \in ks |-> features[k].area_pixels]
    IN SumOver(a, ks)

\* C9: for every village, the sum of area_pixels over its features is at
\* most the total_pixels of its row of results.
C9_AreaWithinTotal ==
    (e_pc = "done" /\ p_pc = "done") =>
        \A r \in ResultSet : AreaOfVillage(r.village) <= r.total_pixels

\* the cells of the raster inside the geometry that hold a value
CellsWithValue(geom) == { c \in geom \cap Cells : raster[c] # NoData }

\* C10: in every row of results the counts of land_stats add up to
\* total_pixels, and total_pixels is the number of cells of the clip that are
\* not nodata.
C10_StatsSumToTotal ==
    \A r \in ResultSet :
        /\ SumOver(r.land_stats, DOMAIN r.land_stats) = r.total_pixels
        /\ r.total_pixels = Cardinality(CellsWithValue(villages[r.village]))
        /\ \A v \in DOMAIN r.land_stats :
              r.land_stats[v] =
                  Cardinality({ c \in CellsWithValue(villages[r.village]) :
                                  raster[c] = v })

\* a row whose clip holds nodata cells, cells of CLASS_MAP and cells outside it
C10_Witness ==
    \E r \in ResultSet :
        /\ DOMAIN r.land_stats = {10, 30}
        /\ r.total_pixels < Cardinality(Window(villages[r.village]))
        /\ r.total_pixels < Cardinality(villages[r.village])
        /\ p_pc = "done"

\* the villages both scripts have gone through whose polygon lies on the
\* raster and covers nodata cells only
AllNodataVillages ==
    { k \in 1..Len(villages) :
        /\ k <= Len(e_out) /\ k <= Len(p_out)
        /\ villages[k] \cap Cells # {}
        /\ \A c \in villages[k] \cap Cells : raster[c] = NoData }

FeaturesOfVillage(k) == { f \in FeatureSet : f.village = k }

RowsOfVillage(k) == { r \in ResultSet : r.village = k }

\* C11 as stated: a polygon whose clipped cells are all nodata gives no
\* feature, a row of results with total_pixels = 0, and no fault.
C11_NodataRowWithZero ==
    \A k \in AllNodataVillages :
        /\ FeaturesOfVillage(k) = {}
        /\ \E r \in RowsOfVillage(k) : r.total_pixels = 0
        /\ e_out[k] # "error" /\ p_out[k] # "error"

\* C11 as the code has it: a polygon whose clipped cells are all nodata gives
\* no feature and no row of results (both loops skip it), and no fault; every
\* row of results has total_pixels >= 1.
C11_NodataSkipped ==
    /\ \A k \in AllNodataVillages :
          /\ FeaturesOfVillage(k) = {}
          /\ RowsOfVillage(k) = {}
          /\ e_out[k] = "empty" /\ p_out[k] = "empty"
    /\ \A r \in ResultSet : r.total_pixels >= 1

\* both scripts ended; an all-nodata village was skipped and the village
\* after it has its row and its features
C11_Witness ==
    /\ e_pc = "done" /\ p_pc = "done"
    /\ Len(villages) = 2
    /\ 1 \in AllNodataVillages
    /\ RowsOfVillage(2) # {}
    /\ FeaturesOfVillage(2) # {}

LandTypes == {"tree_cover", "cropland", "built_up", "water_bodies"}

ClassKeys == {10, 40, 50, 80}

\* the cells of village k that hold code v
CellsOfCode(k, v) == { c \in villages[k] \cap Cells : raster[c] = v }

\* C12: every feature has one of the four land types and covers cells of a
\* key of CLASS_MAP only; a code of the clip that is neither a key nor nodata
\* is covered by no feature of the village, and is a key of the land_stats of
\* the village's row, with the number of its cells.
C12_UnmappedCode ==
    /\ \A f \in FeatureSet :
          /\ f.land_type \in LandTypes
          /\ \A c \in f.geometry : raster[c] \in ClassKeys
    /\ \A k \in 1..Len(villages) : \A v \in RawCodes \ (ClassKeys \cup {NoData}) :
          CellsOfCode(k, v) # {} =>
              /\ k <= Len(e_out) =>
                    \A f \in FeaturesOfVillage(k) : f.geometry \cap CellsOfCode(k, v) = {}
              /\ k <= Len(p_out) =>
                    /\ Cardinality(RowsOfVillage(k)) = 1
                    /\ \A r \in RowsOfVillage(k) :
                          /\ v \in DOMAIN r.land_stats
                          /\ r.land_stats[v] = Cardinality(CellsOfCode(k, v))

\* a village with cells of code 10 and of code 30: its features are all
\* tree_cover, its row counts the cells of code 30
C12_Witness ==
    /\ e_pc = "done" /\ p_pc = "done"
    /\ \E k \in 1..Len(villages) :
          /\ CellsOfCode(k, 30) # {}
          /\ CellsOfCode(k, 10) # {}
          /\ FeaturesOfVillage(k) # {}
          /\ \A f \in FeaturesOfVillage(k) : f.land_type = "tree_cover"
          /\ \E r \in RowsOfVillage(k) : r.land_stats[30] >= 2

\* the villages whose clip fails: the polygon does not lie on the raster
FailingVillages == { k \in 1..Len(villages) : villages[k] \cap Cells = {} }

IsPrefix(a, b) == Len(a) <= Len(b) /\ SubSeq(b, 1, Len(a)) = a

\* what the lists hold of every village a loop has gone through
C13_Outcomes ==
    /\ Len(p_out) <= Len(villages) /\ Len(e_out) <= Len(villages)
    /\ p_pc \in {"write", "done"} => Len(p_out) = Len(villages)
    /\ e_pc \in {"write", "done"} => Len(e_out) = Len(villages)
    /\ \A k \in 1..Len(p_out) :
          IF k \in FailingVillages
          THEN p_out[k] = "error" /\ RowsOfVillage(k) = {}
          ELSE /\ p_out[k] # "error"
               /\ CellsWithValue(villages[k]) # {}
                     => Cardinality(RowsOfVillage(k)) = 1
    /\ \A k \in 1..Len(e_out) :
          IF k \in FailingVillages
          THEN e_out[k] = "error" /\ FeaturesOfVillage(k) = {}
          ELSE /\ e_out[k] # "error"
               /\ CellsOfCode(k, 10) # {} => FeaturesOfVillage(k) # {}

\* what one step does to the lists
C13_Step ==
    /\ IsPrefix(results, results') /\ IsPrefix(features, features')
    /\ IsPrefix(p_out, p_out') /\ IsPrefix(e_out, e_out')
    /\ Len(p_out') = Len(p_out) + 1 /\ p_out'[Len(p_out')] = "error"
          => results' = results
    /\ Len(e_out') = Len(e_out) + 1 /\ e_out'[Len(e_out')] = "error"
          => features' = features

\* C13: in both loops a village whose clip raises is caught for that village
\* only: it adds nothing to the lists, what the lists held before stays, and
\* every village after it is gone through, up to the last.
C13_FailSoft == [](C13_Outcomes) /\ [][C13_Step]_vars

\* both scripts ended; the first village failed in both and the second has
\* its row and its features
C13_Witness ==
    /\ e_pc = "done" /\ p_pc = "done"
    /\ Len(villages) = 2
    /\ FailingVillages = {1}
    /\ p_out[1] = "error" /\ e_out[1] = "error"
    /\ RowsOfVillage(2) # {} /\ FeaturesOfVillage(2) # {}

\* both scripts ended; the first village has its row and its features and
\* the second failed in both
C13_WitnessEarlier ==
    /\ e_pc = "done" /\ p_pc = "done"
    /\ Len(villages) = 2
    /\ FailingVillages = {2}
    /\ RowsOfVillage(1) # {} /\ FeaturesOfVillage(1) # {}

====
